---------------------------- MODULE Spec2Model ----------------------------
(***************************************************************************)
(* Model of dragonfly-client-backend: the BackendFactory (scheme table,    *)
(* builtin and plugin registration, build) of src/lib.rs and the           *)
(* ObjectStorage backend (ParsedURL, operator construction, head, get) of  *)
(* src/object_storage.rs.                                                  *)
(*                                                                         *)
(* Strings the code takes apart (file names, schemes, URL paths) are       *)
(* sequences of one-character strings.  A URL is the value url::Url::parse *)
(* hands back: its scheme, host and path, or the fact that parsing failed. *)
(***************************************************************************)
EXTENDS Integers, Sequences, FiniteSets, TLC

VARIABLES
    plugin_dir,    \* the argument BackendFactory::new was called with
    new_result,    \* "pending" before new returns, then "Ok" or the error kind
    factory,       \* the value new returned: [present, backends]
    log,           \* the info! lines of the registrations, in order
    attempts,      \* file names handed to Library::new, in order
    invoked,       \* file names whose register_plugin constructor was called
    build_result,  \* the last build(url) call and what it returned
    prev_build,    \* the build(url) call before that
    req,           \* the last head/get request given to an ObjectStorage
    resp,          \* what that request returned
    calls,         \* the provider calls that request issued, in order
    operator       \* the operator that request built, if it built one

vars == <<plugin_dir, new_result, factory, log, attempts, invoked,
          build_result, prev_build, req, resp, calls, operator>>

factoryVars == <<plugin_dir, new_result, factory, log, attempts, invoked,
                 build_result, prev_build>>

storageVars == <<req, resp, calls, operator>>

---------------------------------------------------------------------------
(* Bounds *)

\* Most entries a scanned plugin directory holds.
MaxEntries == 2

---------------------------------------------------------------------------
(* Strings *)

s_http  == <<"h", "t", "t", "p">>
s_https == <<"h", "t", "t", "p", "s">>
s_s3    == <<"s", "3">>
s_gcs   == <<"g", "c", "s">>
s_abs   == <<"a", "b", "s">>
s_oss   == <<"o", "s", "s">>
s_obs   == <<"o", "b", "s">>
s_cos   == <<"c", "o", "s">>
s_hdfs  == <<"h", "d", "f", "s">>
s_ftp   == <<"f", "t", "p">>
s_s     == <<"s">>
s_lib   == <<"l", "i", "b">>

\* Option<String>
NoneStr == [some |-> FALSE, val |-> <<>>]

SomeStr(s) == [some |-> TRUE, val |-> s]

\* str::strip_prefix
StripPrefix(s, p) ==
    IF Len(s) >= Len(p) /\ SubSeq(s, 1, Len(p)) = p
    THEN SomeStr(SubSeq(s, Len(p) + 1, Len(s)))
    ELSE NoneStr

\* str::ends_with
EndsWith(s, c) == Len(s) > 0 /\ s[Len(s)] = c

\* Position of the last "." of a file name, 0 when it has none.
LastDot(name) ==
    LET dots == {i \in 1..Len(name) : name[i] = "."}
    IN  IF dots = {} THEN 0 ELSE CHOOSE i \in dots : \A j \in dots : j <= i

\* Path::file_stem of a directory entry: the file name up to its last ".",
\* the whole name when it has no "." or only a leading one.
FileStem(name) ==
    IF LastDot(name) <= 1 THEN name ELSE SubSeq(name, 1, LastDot(name) - 1)

---------------------------------------------------------------------------
(* The scheme table *)

\* object_storage::Scheme
Schemes == {"S3", "GCS", "ABS", "OSS", "OBS", "COS"}

\* impl fmt::Display for Scheme
Display(scheme) ==
    CASE scheme = "S3"  -> s_s3
      [] scheme = "GCS" -> s_gcs
      [] scheme = "ABS" -> s_abs
      [] scheme = "OSS" -> s_oss
      [] scheme = "OBS" -> s_obs
      [] scheme = "COS" -> s_cos

\* impl FromStr for Scheme
FromStr(s) ==
    IF s = s_s3 THEN [ok |-> TRUE, scheme |-> "S3"]
    ELSE IF s = s_gcs THEN [ok |-> TRUE, scheme |-> "GCS"]
    ELSE IF s = s_abs THEN [ok |-> TRUE, scheme |-> "ABS"]
    ELSE IF s = s_oss THEN [ok |-> TRUE, scheme |-> "OSS"]
    ELSE IF s = s_obs THEN [ok |-> TRUE, scheme |-> "OBS"]
    ELSE IF s = s_cos THEN [ok |-> TRUE, scheme |-> "COS"]
    ELSE [ok |-> FALSE, scheme |-> "none"]

\* http::HTTP::new(scheme)
HTTP_new(s) == [kind |-> "HTTP", name |-> s, scheme |-> "none"]

\* object_storage::ObjectStorage::new(scheme)
ObjectStorage_new(scheme) ==
    [kind |-> "ObjectStorage", name |-> <<>>, scheme |-> scheme]

\* The inserts of load_builtin_backends, in order: key and boxed backend.
Builtins ==
    <<[key |-> s_http,  backend |-> HTTP_new(s_http)],
      [key |-> s_https, backend |-> HTTP_new(s_https)],
      [key |-> s_s3,    backend |-> ObjectStorage_new("S3")],
      [key |-> s_gcs,   backend |-> ObjectStorage_new("GCS")],
      [key |-> s_abs,   backend |-> ObjectStorage_new("ABS")],
      [key |-> s_oss,   backend |-> ObjectStorage_new("OSS")],
      [key |-> s_obs,   backend |-> ObjectStorage_new("OBS")],
      [key |-> s_cos,   backend |-> ObjectStorage_new("COS")]>>

\* The keys load_builtin_backends inserts, in order.
BuiltinOrder == [i \in 1..Len(Builtins) |-> Builtins[i].key]

BuiltinSchemes == {BuiltinOrder[i] : i \in 1..Len(BuiltinOrder)}

\* The backend load_builtin_backends boxes for a builtin key.
BuiltinBackend(s) ==
    Builtins[CHOOSE i \in 1..Len(Builtins) : Builtins[i].key = s].backend

\* The backend the register_plugin constructor of a loaded module returns.
PluginBackend(file) == [kind |-> "Plugin", name |-> file, scheme |-> "none"]

\* No backend (the None of HashMap::get).
NoBackend == [kind |-> "None", name |-> <<>>, scheme |-> "none"]

\* HashMap::default()
EmptyMap == [k \in {} |-> NoBackend]

\* Insert as HashMap::entry(k).or_insert(v): a key already present keeps its value.
Insert_keep_existing(m, k, v) ==
    [x \in (DOMAIN m) \cup {k} |-> IF x \in DOMAIN m THEN m[x] ELSE v]

\* HashMap::insert: the value replaces whatever the key held.
Insert(m, k, v) == [x \in (DOMAIN m) \cup {k} |-> IF x = k THEN v ELSE m[x]]

\* HashMap::get
Get(m, k) == IF k \in DOMAIN m THEN m[k] ELSE NoBackend

\* What construction has done so far: the table and the three traces.
EmptyState == [backends |-> EmptyMap, log |-> <<>>, attempts |-> <<>>,
               invoked |-> <<>>]

RECURSIVE InsertBuiltins(_, _)
InsertBuiltins(st, i) ==
    IF i > Len(Builtins) THEN st
    ELSE InsertBuiltins(
             [st EXCEPT !.backends = Insert(@, Builtins[i].key,
                                            Builtins[i].backend),
                        !.log = Append(@, [kind |-> "builtin",
                                           name |-> Builtins[i].key])],
             i + 1)

\* load_builtin_backends without its last insert (cos).
load_builtin_backends_without_cos(st) ==
    [backends |-> [k \in (DOMAIN InsertBuiltins(st, 1).backends) \ {s_cos}
                      |-> InsertBuiltins(st, 1).backends[k]],
     log |-> SubSeq(InsertBuiltins(st, 1).log, 1, Len(BuiltinOrder) - 1),
     attempts |-> st.attempts,
     invoked |-> st.invoked]

\* BackendFactory::load_builtin_backends
load_builtin_backends(st) == InsertBuiltins(st, 1)

\* The loop registering a module without the "lib" prefix under its whole
\* file stem.
RECURSIVE LoadEntries_register_whole_stem(_, _, _)
LoadEntries_register_whole_stem(st, entries, i) ==
    IF i > Len(entries) THEN [err |-> "none", st |-> st]
    ELSE
        LET e   == entries[i]
            st1 == [st EXCEPT !.attempts = Append(@, e.name)]
            stripped == StripPrefix(FileStem(e.name), s_lib)
            plugin_name == IF stripped.some THEN stripped.val ELSE FileStem(e.name)
        IN  IF e.status # "ok" THEN [err |-> "PluginError", st |-> st1]
            ELSE LoadEntries_register_whole_stem(
                     [st1 EXCEPT !.backends = Insert(@, plugin_name,
                                                     PluginBackend(e.name)),
                                 !.invoked = Append(@, e.name),
                                 !.log = Append(@, [kind |-> "plugin",
                                                    name |-> plugin_name])],
                     entries, i + 1)

\* One iteration of the loop of load_plugin_backends and the ones after it.
RECURSIVE LoadEntries(_, _, _)
LoadEntries(st, entries, i) ==
    IF i > Len(entries) THEN [err |-> "none", st |-> st]
    ELSE
        LET e   == entries[i]
            st1 == [st EXCEPT !.attempts = Append(@, e.name)]
            plugin_name == StripPrefix(FileStem(e.name), s_lib)
        IN  IF e.status = "load_fails" THEN [err |-> "PluginError", st |-> st1]
            ELSE IF e.status = "no_symbol" THEN [err |-> "PluginError", st |-> st1]
            ELSE IF plugin_name.some
            THEN LoadEntries(
                     [st1 EXCEPT !.backends = Insert(@, plugin_name.val,
                                                     PluginBackend(e.name)),
                                 !.invoked = Append(@, e.name),
                                 !.log = Append(@, [kind |-> "plugin",
                                                    name |-> plugin_name.val])],
                     entries, i + 1)
            ELSE LoadEntries(st1, entries, i + 1)

\* load_plugin_backends without the exists() check: read_dir fails on a
\* missing directory.
load_plugin_backends_without_exists_check(st, dir) ==
    IF dir.status \in {"missing", "unreadable"} THEN [err |-> "IOError", st |-> st]
    ELSE LoadEntries(st, dir.entries, 1)

\* BackendFactory::load_plugin_backends
load_plugin_backends(st, dir) ==
    IF dir.status = "missing" THEN [err |-> "none", st |-> st]
    ELSE IF dir.status = "unreadable" THEN [err |-> "IOError", st |-> st]
    ELSE LoadEntries(st, dir.entries, 1)

\* new that logs the plugin error and still returns the factory.
new_ignoring_plugin_error(dir) ==
    LET st0 == load_builtin_backends(EmptyState)
        r   == IF dir.some THEN load_plugin_backends(st0, dir)
               ELSE [err |-> "none", st |-> st0]
    IN  [result |-> "Ok",
         factory |-> [present |-> TRUE, backends |-> r.st.backends],
         st |-> r.st]

\* BackendFactory::new: the Result it returns, with the traces of the call.
new(dir) ==
    LET st0 == load_builtin_backends(EmptyState)
        r   == IF dir.some THEN load_plugin_backends(st0, dir)
               ELSE [err |-> "none", st |-> st0]
    IN  IF r.err # "none"
        THEN [result |-> r.err,
              factory |-> [present |-> FALSE, backends |-> EmptyMap],
              st |-> r.st]
        ELSE [result |-> "Ok",
              factory |-> [present |-> TRUE, backends |-> r.st.backends],
              st |-> r.st]

\* build that takes the first key the scheme is a prefix of.
build_prefix_match(backends, url) ==
    LET hits == {k \in DOMAIN backends : StripPrefix(k, url.scheme).some}
    IN  IF ~url.parses
        THEN [ok |-> FALSE, err |-> "ParseError", backend |-> NoBackend]
        ELSE IF hits # {}
        THEN [ok |-> TRUE, err |-> "none",
              backend |-> backends[CHOOSE k \in hits : TRUE]]
        ELSE [ok |-> FALSE, err |-> "InvalidParameter", backend |-> NoBackend]

\* build that reports a parse failure as Error::InvalidParameter.
build_parse_failure_as_invalid_parameter(backends, url) ==
    IF ~url.parses \/ Get(backends, url.scheme) = NoBackend
    THEN [ok |-> FALSE, err |-> "InvalidParameter", backend |-> NoBackend]
    ELSE [ok |-> TRUE, err |-> "none", backend |-> Get(backends, url.scheme)]

\* BackendFactory::build
build(backends, url) ==
    IF ~url.parses THEN [ok |-> FALSE, err |-> "ParseError", backend |-> NoBackend]
    ELSE IF Get(backends, url.scheme) # NoBackend
    THEN [ok |-> TRUE, err |-> "none", backend |-> Get(backends, url.scheme)]
    ELSE [ok |-> FALSE, err |-> "InvalidParameter", backend |-> NoBackend]

---------------------------------------------------------------------------
(* The object storage backend *)

\* Option<String> of a credentials field or of a builder setting.
None == [some |-> FALSE, val |-> ""]

Some(v) == [some |-> TRUE, val |-> v]

\* The value of two hexadecimal digits, -1 when either is none.
HexDigit(c) ==
    CASE c = "0" -> 0 [] c = "1" -> 1 [] c = "2" -> 2 [] c = "3" -> 3
      [] c = "4" -> 4 [] c = "5" -> 5 [] c = "6" -> 6 [] c = "7" -> 7
      [] c = "8" -> 8 [] c = "9" -> 9
      [] c \in {"a", "A"} -> 10 [] c \in {"b", "B"} -> 11
      [] c \in {"c", "C"} -> 12 [] c \in {"d", "D"} -> 13
      [] c \in {"e", "E"} -> 14 [] c \in {"f", "F"} -> 15
      [] OTHER -> -1

\* decode_utf8_lossy of one decoded byte: the ASCII characters the model's
\* paths encode, the replacement character for a byte that is not UTF-8.
CharOfByte(b) ==
    CASE b = 32 -> " "
      [] b = 37 -> "%"
      [] b = 47 -> "/"
      [] b = 63 -> "?"
      [] b = 107 -> "k"
      [] OTHER -> "U+FFFD"

\* percent_decode_str(s).decode_utf8_lossy(): "%" followed by two hex
\* digits becomes the byte they name, everything else is kept.
RECURSIVE PercentDecode(_)
PercentDecode(s) ==
    IF s = <<>> THEN <<>>
    ELSE IF /\ s[1] = "%" /\ Len(s) >= 3
            /\ HexDigit(s[2]) >= 0 /\ HexDigit(s[3]) >= 0
    THEN <<CharOfByte(16 * HexDigit(s[2]) + HexDigit(s[3]))>>
             \o PercentDecode(SubSeq(s, 4, Len(s)))
    ELSE <<s[1]>> \o PercentDecode(Tail(s))

\* The path percent-encoding of Url::set_path, on the characters of the
\* model's entry paths.
RECURSIVE PercentEncodePath(_)
PercentEncodePath(s) ==
    IF s = <<>> THEN <<>>
    ELSE (CASE s[1] = " " -> <<"%", "2", "0">>
            [] s[1] = "?" -> <<"%", "3", "F">>
            [] OTHER -> <<s[1]>>) \o PercentEncodePath(Tail(s))

NoParsedURL ==
    [ok |-> FALSE, url |-> [parses |-> FALSE, scheme |-> <<>>,
                            host |-> NoneStr, path |-> <<>>],
     scheme |-> "none", bucket |-> <<>>, key |-> <<>>]

\* try_from that takes an absent host as the empty bucket.
try_from_empty_bucket(url) ==
    IF ~FromStr(url.scheme).ok THEN NoParsedURL
    ELSE IF ~StripPrefix(url.path, <<"/">>).some THEN NoParsedURL
    ELSE [ok |-> TRUE, url |-> url, scheme |-> FromStr(url.scheme).scheme,
          bucket |-> url.host.val,
          key |-> PercentDecode(StripPrefix(url.path, <<"/">>).val)]

\* try_from that keeps the key as the URL encodes it.
try_from_without_decoding(url) ==
    IF ~url.host.some THEN NoParsedURL
    ELSE IF ~FromStr(url.scheme).ok THEN NoParsedURL
    ELSE IF ~StripPrefix(url.path, <<"/">>).some THEN NoParsedURL
    ELSE [ok |-> TRUE, url |-> url, scheme |-> FromStr(url.scheme).scheme,
          bucket |-> url.host.val,
          key |-> StripPrefix(url.path, <<"/">>).val]

\* impl TryFrom<Url> for ParsedURL; every failure is InvalidURI.
try_from(url) ==
    IF ~url.host.some THEN NoParsedURL
    ELSE IF ~FromStr(url.scheme).ok THEN NoParsedURL
    ELSE IF ~StripPrefix(url.path, <<"/">>).some THEN NoParsedURL
    ELSE [ok |-> TRUE, url |-> url, scheme |-> FromStr(url.scheme).scheme,
          bucket |-> url.host.val,
          key |-> PercentDecode(StripPrefix(url.path, <<"/">>).val)]

\* is_dir that looks at the decoded key instead of the URL path.
is_dir_of_key(parsed_url) == EndsWith(parsed_url.key, "/")

\* ParsedURL::is_dir
is_dir(parsed_url) == EndsWith(parsed_url.url.path, "/")

\* make_url_by_entry_path that joins the entry path to the URL's own path.
make_url_by_entry_path_joining(parsed_url, entry_path) ==
    [parsed_url.url EXCEPT !.path = @ \o PercentEncodePath(entry_path)]

\* ParsedURL::make_url_by_entry_path: the URL with its path set to the entry
\* path, which set_path encodes and starts with "/".
make_url_by_entry_path(parsed_url, entry_path) ==
    [parsed_url.url EXCEPT !.path =
        IF entry_path # <<>> /\ entry_path[1] = "/"
        THEN PercentEncodePath(entry_path)
        ELSE <<"/">> \o PercentEncodePath(entry_path)]

\* An operator that was not built.
NoOperator ==
    [provider |-> "none", bucket |-> <<>>, timeout |-> 0,
     access_key_id |-> None, access_key_secret |-> None, region |-> None,
     endpoint |-> None, session_token |-> None, credential |-> None,
     predefined_acl |-> None, root |-> None]

OperatorErr(err, message) ==
    [ok |-> FALSE, err |-> err, message |-> message, op |-> NoOperator]

OperatorOk(op) == [ok |-> TRUE, err |-> "none", message |-> "", op |-> op]

\* s3_operator that falls back to anonymous access without credentials.
s3_operator_anonymous(parsed_url, object_storage, timeout, lib) ==
    IF lib = "ReqwestError" THEN OperatorErr("ReqwestError", "")
    ELSE IF lib = "OpenDALError" THEN OperatorErr("OpenDALError", "")
    ELSE OperatorOk([NoOperator EXCEPT
             !.provider = "S3",
             !.timeout = timeout,
             !.bucket = parsed_url.bucket,
             !.region = object_storage.region,
             !.endpoint = object_storage.endpoint])

\* The two fallible library calls of every *_operator function:
\* reqwest::Client::builder().timeout(timeout).build()? and
\* Operator::new(builder)?, whose errors "?" converts.  lib is what the
\* libraries do: "ok", "ReqwestError" or "OpenDALError".
s3_operator(parsed_url, object_storage, timeout, lib) ==
    IF ~object_storage.some
    THEN OperatorErr("BackendError", "need access_key_id and access_key_secret")
    ELSE IF lib = "ReqwestError" THEN OperatorErr("ReqwestError", "")
    ELSE IF lib = "OpenDALError" THEN OperatorErr("OpenDALError", "")
    ELSE OperatorOk([NoOperator EXCEPT
             !.provider = "S3",
             !.timeout = timeout,
             !.access_key_id = Some(object_storage.access_key_id),
             !.access_key_secret = Some(object_storage.access_key_secret),
             !.bucket = parsed_url.bucket,
             !.region = object_storage.region,
             !.endpoint = object_storage.endpoint,
             !.session_token = object_storage.session_token])

gcs_operator(parsed_url, object_storage, timeout, lib) ==
    IF ~object_storage.some THEN OperatorErr("BackendError", "need credential")
    ELSE IF lib = "ReqwestError" THEN OperatorErr("ReqwestError", "")
    ELSE IF ~object_storage.credential.some
    THEN OperatorErr("BackendError", "need credential")
    ELSE IF lib = "OpenDALError" THEN OperatorErr("OpenDALError", "")
    ELSE OperatorOk([NoOperator EXCEPT
             !.provider = "GCS",
             !.timeout = timeout,
             !.bucket = parsed_url.bucket,
             !.credential = object_storage.credential,
             !.predefined_acl = object_storage.predefined_acl])

abs_operator(parsed_url, object_storage, timeout, lib) ==
    IF ~object_storage.some
    THEN OperatorErr("BackendError", "need access_key_id and access_key_secret")
    ELSE IF lib = "ReqwestError" THEN OperatorErr("ReqwestError", "")
    ELSE IF lib = "OpenDALError" THEN OperatorErr("OpenDALError", "")
    ELSE OperatorOk([NoOperator EXCEPT
             !.provider = "ABS",
             !.timeout = timeout,
             !.access_key_id = Some(object_storage.access_key_id),
             !.access_key_secret = Some(object_storage.access_key_secret),
             !.bucket = parsed_url.bucket,
             !.endpoint = object_storage.endpoint])

oss_operator(parsed_url, object_storage, timeout, lib) ==
    IF ~object_storage.some
    THEN OperatorErr("BackendError",
                     "need endpoint, access_key_id and access_key_secret")
    ELSE IF lib = "ReqwestError" THEN OperatorErr("ReqwestError", "")
    ELSE IF lib = "OpenDALError" THEN OperatorErr("OpenDALError", "")
    ELSE OperatorOk([NoOperator EXCEPT
             !.provider = "OSS",
             !.timeout = timeout,
             !.access_key_id = Some(object_storage.access_key_id),
             !.access_key_secret = Some(object_storage.access_key_secret),
             !.root = Some("/"),
             !.bucket = parsed_url.bucket,
             !.endpoint = object_storage.endpoint])

obs_operator(parsed_url, object_storage, timeout, lib) ==
    IF ~object_storage.some
    THEN OperatorErr("BackendError",
                     "need endpoint, access_key_id and access_key_secret")
    ELSE IF lib = "ReqwestError" THEN OperatorErr("ReqwestError", "")
    ELSE IF lib = "OpenDALError" THEN OperatorErr("OpenDALError", "")
    ELSE OperatorOk([NoOperator EXCEPT
             !.provider = "OBS",
             !.timeout = timeout,
             !.access_key_id = Some(object_storage.access_key_id),
             !.access_key_secret = Some(object_storage.access_key_secret),
             !.bucket = parsed_url.bucket,
             !.endpoint = object_storage.endpoint])

cos_operator(parsed_url, object_storage, timeout, lib) ==
    IF ~object_storage.some
    THEN OperatorErr("BackendError",
                     "need endpoint, access_key_id and access_key_secret")
    ELSE IF lib = "ReqwestError" THEN OperatorErr("ReqwestError", "")
    ELSE IF lib = "OpenDALError" THEN OperatorErr("OpenDALError", "")
    ELSE OperatorOk([NoOperator EXCEPT
             !.provider = "COS",
             !.timeout = timeout,
             !.access_key_id = Some(object_storage.access_key_id),
             !.access_key_secret = Some(object_storage.access_key_secret),
             !.bucket = parsed_url.bucket,
             !.endpoint = object_storage.endpoint])

\* operator that picks the provider by the scheme of the parsed URL.
operator_of_by_url_scheme(self, parsed_url, object_storage, timeout, lib) ==
    CASE parsed_url.scheme = "S3"  -> s3_operator(parsed_url, object_storage, timeout, lib)
      [] parsed_url.scheme = "GCS" -> gcs_operator(parsed_url, object_storage, timeout, lib)
      [] parsed_url.scheme = "ABS" -> abs_operator(parsed_url, object_storage, timeout, lib)
      [] parsed_url.scheme = "OSS" -> oss_operator(parsed_url, object_storage, timeout, lib)
      [] parsed_url.scheme = "OBS" -> obs_operator(parsed_url, object_storage, timeout, lib)
      [] parsed_url.scheme = "COS" -> cos_operator(parsed_url, object_storage, timeout, lib)
      [] OTHER -> s3_operator(parsed_url, object_storage, timeout, lib)

\* ObjectStorage::operator: the provider is chosen by self.scheme.
operator_of(self, parsed_url, object_storage, timeout, lib) ==
    CASE self.scheme = "S3"  -> s3_operator(parsed_url, object_storage, timeout, lib)
      [] self.scheme = "GCS" -> gcs_operator(parsed_url, object_storage, timeout, lib)
      [] self.scheme = "ABS" -> abs_operator(parsed_url, object_storage, timeout, lib)
      [] self.scheme = "OSS" -> oss_operator(parsed_url, object_storage, timeout, lib)
      [] self.scheme = "OBS" -> obs_operator(parsed_url, object_storage, timeout, lib)
      [] self.scheme = "COS" -> cos_operator(parsed_url, object_storage, timeout, lib)

\* Option<Range> of a GetRequest.
NoRange == [some |-> FALSE, start |-> 0, length |-> 0]

SomeRange(start, length) == [some |-> TRUE, start |-> start, length |-> length]

\* A call issued to the provider through the operator: its name, the key
\* and byte range (start..end) it was given, and whether it succeeded.
Call(name, key, range, ok) ==
    [name |-> name, key |-> key, ranged |-> range.some,
     start |-> range.start, end |-> range.start + range.length, ok |-> ok,
     listed |-> <<>>, size |-> 0]

\* The recursive list call, with the entries the provider answered.
ListCall(key, list_out) ==
    [Call("list", key, NoRange, list_out.ok) EXCEPT !.listed = list_out.entries]

\* The stat call, with the content length the provider answered.
StatCall(key, stat_out) ==
    [Call("stat", key, NoRange, stat_out.ok) EXCEPT !.size = stat_out.content_length]

\* HeadResponse / GetResponse, or the error returned in their place.
NoResponse ==
    [ok |-> FALSE, err |-> "none", message |-> "", success |-> FALSE,
     content_length |-> -1, entries |-> <<>>, status_code |-> "None",
     body |-> <<>>]

ErrResponse(err, message) == [NoResponse EXCEPT !.err = err, !.message = message]

\* What a head or get call did: its result, the provider calls, the operator.
Outcome(response, provider_calls, op) ==
    [resp |-> response, calls |-> provider_calls, operator |-> op]

\* The DirEntry head makes of a listed entry.
DirEntryOf(parsed_url, entry) ==
    [url |-> make_url_by_entry_path(parsed_url, entry.path),
     content_length |-> entry.content_length,
     is_dir |-> entry.is_dir]

\* The bytes of object at offsets [start, end), as far as the object goes.
Slice(object, start, end) ==
    SubSeq(object, start + 1, IF end < Len(object) THEN end ELSE Len(object))

\* head that lists a directory and stats only a single object.
head_stat_only_for_objects(self, request, lib, list_out, stat_out) ==
    IF ~request.url.parses
    THEN Outcome(ErrResponse("InvalidURI", ""), <<>>, NoOperator)
    ELSE
    LET parsed_url == try_from(request.url)
        o == operator_of(self, parsed_url, request.object_storage,
                         request.timeout, lib)
    IN  IF ~parsed_url.ok
        THEN Outcome(ErrResponse("InvalidURI", ""), <<>>, NoOperator)
        ELSE IF ~o.ok
        THEN Outcome(ErrResponse(o.err, o.message), <<>>, NoOperator)
        ELSE IF is_dir(parsed_url)
        THEN IF ~list_out.ok
             THEN Outcome(ErrResponse("BackendError", "list"),
                          <<ListCall(parsed_url.key, list_out)>>, o.op)
             ELSE Outcome([NoResponse EXCEPT !.ok = TRUE, !.success = TRUE,
                              !.entries = [i \in 1..Len(list_out.entries) |->
                                  DirEntryOf(parsed_url, list_out.entries[i])]],
                          <<ListCall(parsed_url.key, list_out)>>, o.op)
        ELSE IF ~stat_out.ok
        THEN Outcome(ErrResponse("BackendError", "stat"),
                     <<StatCall(parsed_url.key, stat_out)>>, o.op)
        ELSE Outcome([NoResponse EXCEPT !.ok = TRUE, !.success = TRUE,
                         !.content_length = stat_out.content_length],
                     <<StatCall(parsed_url.key, stat_out)>>, o.op)

\* <ObjectStorage as Backend>::head.  list_out and stat_out are what the
\* provider answers to list_with(key).recursive(true) and stat_with(key).
head(self, request, lib, list_out, stat_out) ==
    IF ~request.url.parses
    THEN Outcome(ErrResponse("InvalidURI", ""), <<>>, NoOperator)
    ELSE
    LET parsed_url == try_from(request.url)
        o == operator_of(self, parsed_url, request.object_storage,
                         request.timeout, lib)
        list_calls == IF is_dir(parsed_url)
                      THEN <<ListCall(parsed_url.key, list_out)>>
                      ELSE <<>>
        entries == IF is_dir(parsed_url)
                   THEN [i \in 1..Len(list_out.entries) |->
                            DirEntryOf(parsed_url, list_out.entries[i])]
                   ELSE <<>>
        stat_call == StatCall(parsed_url.key, stat_out)
    IN  IF ~parsed_url.ok
        THEN Outcome(ErrResponse("InvalidURI", ""), <<>>, NoOperator)
        ELSE IF ~o.ok
        THEN Outcome(ErrResponse(o.err, o.message), <<>>, NoOperator)
        ELSE IF is_dir(parsed_url) /\ ~list_out.ok
        THEN Outcome(ErrResponse("BackendError", "list"), list_calls, o.op)
        ELSE IF ~stat_out.ok
        THEN Outcome(ErrResponse("BackendError", "stat"),
                     Append(list_calls, stat_call), o.op)
        ELSE Outcome([NoResponse EXCEPT !.ok = TRUE, !.success = TRUE,
                         !.content_length = stat_out.content_length,
                         !.entries = entries],
                     Append(list_calls, stat_call), o.op)

\* get that takes range.length for the end of the byte range.
get_range_end_is_length(self, request, lib, reader_ok, stream_ok, object) ==
    IF ~request.url.parses
    THEN Outcome(ErrResponse("InvalidURI", ""), <<>>, NoOperator)
    ELSE
    LET parsed_url == try_from(request.url)
        o == operator_of(self, parsed_url, request.object_storage,
                         request.timeout, lib)
        reader_call == Call("reader", parsed_url.key, NoRange, reader_ok)
        stream_call == [Call("stream", parsed_url.key, request.range, stream_ok)
                           EXCEPT !.end = request.range.length]
    IN  IF ~parsed_url.ok
        THEN Outcome(ErrResponse("InvalidURI", ""), <<>>, NoOperator)
        ELSE IF ~o.ok
        THEN Outcome(ErrResponse(o.err, o.message), <<>>, NoOperator)
        ELSE IF ~reader_ok
        THEN Outcome(ErrResponse("BackendError", "reader"), <<reader_call>>, o.op)
        ELSE IF ~stream_ok
        THEN Outcome(ErrResponse("BackendError", "stream"),
                     <<reader_call, stream_call>>, o.op)
        ELSE Outcome([NoResponse EXCEPT !.ok = TRUE, !.success = TRUE,
                         !.status_code = "200 OK",
                         !.body = IF request.range.some
                                  THEN Slice(object, request.range.start,
                                             request.range.length)
                                  ELSE object],
                     <<reader_call, stream_call>>, o.op)

\* <ObjectStorage as Backend>::get.  reader_ok and stream_ok are whether the
\* provider's reader(key) and into_bytes_stream(range) succeed; object is
\* the content stored under the key.
get(self, request, lib, reader_ok, stream_ok, object) ==
    IF ~request.url.parses
    THEN Outcome(ErrResponse("InvalidURI", ""), <<>>, NoOperator)
    ELSE
    LET parsed_url == try_from(request.url)
        o == operator_of(self, parsed_url, request.object_storage,
                         request.timeout, lib)
        reader_call == Call("reader", parsed_url.key, NoRange, reader_ok)
        stream_call == Call("stream", parsed_url.key, request.range, stream_ok)
    IN  IF ~parsed_url.ok
        THEN Outcome(ErrResponse("InvalidURI", ""), <<>>, NoOperator)
        ELSE IF ~o.ok
        THEN Outcome(ErrResponse(o.err, o.message), <<>>, NoOperator)
        ELSE IF ~reader_ok
        THEN Outcome(ErrResponse("BackendError", "reader"), <<reader_call>>, o.op)
        ELSE IF ~stream_ok
        THEN Outcome(ErrResponse("BackendError", "stream"),
                     <<reader_call, stream_call>>, o.op)
        ELSE Outcome([NoResponse EXCEPT !.ok = TRUE, !.success = TRUE,
                         !.status_code = "200 OK",
                         !.body = IF request.range.some
                                  THEN Slice(object, request.range.start,
                                             request.range.start + request.range.length)
                                  ELSE object],
                     <<reader_call, stream_call>>, o.op)

---------------------------------------------------------------------------
(* Inputs *)

\* File names found in a plugin directory.
FileNames == {
    <<"l", "i", "b", "h", "d", "f", "s", ".", "s", "o">>,
    <<"l", "i", "b", "s", "3", ".", "s", "o">>,
    <<"l", "i", "b", "s", "3", ".", "d", "y", "l", "i", "b">>,
    <<"h", "d", "f", "s", ".", "s", "o">> }

\* How Library::new and lib.get(b"register_plugin") fare on an entry.
EntryStatuses == {"ok", "load_fails", "no_symbol"}

DirEntries == [name : FileNames, status : EntryStatuses]

\* Listings fs::read_dir can yield: no file name twice, in any order.
Listings ==
    UNION {{es \in [1..n -> DirEntries] :
               \A i, j \in 1..n : i # j => es[i].name # es[j].name}
           : n \in 0..MaxEntries}

\* The plugin_dir argument: None, or a root whose backend directory is
\* missing, cannot be read, or holds a listing.
PluginDirs ==
    {[some |-> FALSE, status |-> "missing", entries |-> <<>>],
     [some |-> TRUE, status |-> "missing", entries |-> <<>>],
     [some |-> TRUE, status |-> "unreadable", entries |-> <<>>]}
    \cup {[some |-> TRUE, status |-> "exists", entries |-> es] : es \in Listings}

NoPluginDir == [some |-> FALSE, status |-> "missing", entries |-> <<>>]

\* The string given to build does not parse as a URL.
Unparseable == [parses |-> FALSE, scheme |-> <<>>, host |-> NoneStr, path |-> <<>>]

Url(scheme, host, path) ==
    [parses |-> TRUE, scheme |-> scheme, host |-> host, path |-> path]

h_bucket == SomeStr(<<"b">>)

p_key == <<"/", "k">>

\* The URLs build is called with.
BuildUrls ==
    {Unparseable}
    \cup {Url(s, h_bucket, p_key) : s \in BuiltinSchemes \cup {s_hdfs, s_ftp, s_s}}
    \cup {Url(s_s3, NoneStr, p_key)}

\* Backends head and get are called on.
StorageBackends == {ObjectStorage_new(scheme) : scheme \in Schemes}

h_none == NoneStr

p_dir == <<"/", "d", "/">>

p_encoded == <<"/", "d", "%", "2", "F", "k">>

\* s3://b//k: the path begins with two separators.
p_double == <<"/", "/", "k">>

\* s3://b/d%2F: the path ends with an encoded separator.
p_encoded_slash == <<"/", "d", "%", "2", "F">>

\* The URLs head and get are given: for every object storage scheme one
\* with a host and one without (s3:///k), then a directory, an encoded
\* key, a URL with no path (s3://b), another scheme, a string that does
\* not parse, and the two paths above.
RequestUrls ==
    {Unparseable}
    \cup {Url(Display(scheme), h_bucket, p_key) : scheme \in Schemes}
    \cup {Url(Display(scheme), h_none, p_key) : scheme \in Schemes}
    \cup {Url(s_s3, h_bucket, p_dir), Url(s_s3, h_bucket, p_encoded),
          Url(s_s3, h_bucket, <<>>), Url(s_http, h_bucket, p_key)}
    \cup {Url(s_s3, h_bucket, p_double), Url(s_s3, h_bucket, p_encoded_slash)}

\* common::v2::ObjectStorage
Credentials(id, secret, region, endpoint, token, credential, acl) ==
    [some |-> TRUE, access_key_id |-> id, access_key_secret |-> secret,
     region |-> region, endpoint |-> endpoint, session_token |-> token,
     credential |-> credential, predefined_acl |-> acl]

\* No credentials: the object_storage field of the request is None.
NoCredentials ==
    [some |-> FALSE, access_key_id |-> "", access_key_secret |-> "",
     region |-> None, endpoint |-> None, session_token |-> None,
     credential |-> None, predefined_acl |-> None]

\* The object_storage field of the requests.
ObjectStorages ==
    {NoCredentials,
     Credentials("ak", "sk", Some("r"), Some("e"), Some("t"), Some("c"), Some("acl")),
     Credentials("ak", "sk", None, None, None, None, None),
     Credentials("", "sk", Some("r"), Some("e"), None, None, None),
     Credentials("ak", "", Some("r"), Some("e"), None, None, None),
     Credentials("", "", None, None, None, Some("c"), None)}

\* The timeout of the requests.
Timeouts == {10, 30}

\* Longest listing the provider returns.
MaxChildren == 2

\* Largest content length the provider reports.
MaxLength == 2

\* Entries the provider lists under a directory key: a file, a
\* subdirectory, and a file whose path set_path has to encode.
ListedEntries ==
    {[path |-> <<"d", "/", "k">>, content_length |-> MaxLength, is_dir |-> FALSE],
     [path |-> <<"d", "/", "s", "/">>, content_length |-> 0, is_dir |-> TRUE],
     [path |-> <<"/", "d", "/", " ">>, content_length |-> 1, is_dir |-> FALSE]}

\* Answers of the provider to a recursive list.
ListOutcomes ==
    {[ok |-> FALSE, entries |-> <<>>]}
    \cup {[ok |-> TRUE, entries |-> es] :
             es \in UNION {[1..n -> ListedEntries] : n \in 0..MaxChildren}}

\* Answers of the provider to a stat.
StatOutcomes ==
    {[ok |-> FALSE, content_length |-> 0]}
    \cup {[ok |-> TRUE, content_length |-> n] : n \in 0..MaxLength}

\* What the client and operator builders do.
LibOutcomes == {"ok", "ReqwestError", "OpenDALError"}

\* The content stored under the requested key.
Object == <<"b0", "b1", "b2">>

\* The range of a get request.
Ranges ==
    {NoRange} \cup {SomeRange(start, length) :
                       start \in 0..MaxLength, length \in 0..MaxLength}

NoBuild == [called |-> FALSE, url |-> Unparseable, ok |-> FALSE, err |-> "none",
            backend |-> NoBackend]

NoRequest ==
    [op |-> "none", self |-> NoBackend, url |-> Unparseable,
     object_storage |-> NoCredentials, timeout |-> 0, range |-> NoRange]

Request(op, self, url, object_storage, timeout, range) ==
    [op |-> op, self |-> self, url |-> url, object_storage |-> object_storage,
     timeout |-> timeout, range |-> range]

---------------------------------------------------------------------------
(* The factory: construction and build *)

Init ==
    /\ plugin_dir = NoPluginDir
    /\ new_result = "pending"
    /\ factory = [present |-> FALSE, backends |-> EmptyMap]
    /\ log = <<>>
    /\ attempts = <<>>
    /\ invoked = <<>>
    /\ build_result = NoBuild
    /\ prev_build = NoBuild
    /\ req = NoRequest
    /\ resp = NoResponse
    /\ calls = <<>>
    /\ operator = NoOperator

\* BackendFactory::new(plugin_dir)
New(dir) ==
    /\ new_result = "pending"
    /\ LET r == new(dir)
       IN  /\ plugin_dir' = dir
           /\ new_result' = r.result
           /\ factory' = r.factory
           /\ log' = r.st.log
           /\ attempts' = r.st.attempts
           /\ invoked' = r.st.invoked
    /\ UNCHANGED <<build_result, prev_build>>
    /\ UNCHANGED storageVars

\* build that takes the backend out of the table (HashMap::remove).
Build_removing(url) ==
    /\ factory.present
    /\ LET r == build(factory.backends, url)
       IN  /\ build_result' = [called |-> TRUE, url |-> url, ok |-> r.ok,
                                err |-> r.err, backend |-> r.backend]
           /\ factory' = [factory EXCEPT !.backends =
                             [k \in (DOMAIN @) \ {url.scheme} |-> @[k]]]
    /\ prev_build' = build_result
    /\ UNCHANGED <<plugin_dir, new_result, log, attempts, invoked>>
    /\ UNCHANGED storageVars

\* backend_factory.build(url), on the factory new returned
Build(url) ==
    /\ factory.present
    /\ LET r == build(factory.backends, url)
       IN  build_result' = [called |-> TRUE, url |-> url, ok |-> r.ok,
                            err |-> r.err, backend |-> r.backend]
    /\ prev_build' = build_result
    /\ UNCHANGED <<plugin_dir, new_result, factory, log, attempts, invoked>>
    /\ UNCHANGED storageVars

Next ==
    \/ \E dir \in PluginDirs : New(dir)
    \/ \E url \in BuildUrls : Build(url)

Spec == Init /\ [][Next]_vars

---------------------------------------------------------------------------
(* The object storage backend: requests *)

\* backend.head(request) on an ObjectStorage
BackendHead(self, request, lib, list_out, stat_out) ==
    /\ req.op = "none"
    /\ LET r == head(self, request, lib, list_out, stat_out)
       IN  /\ req' = request
           /\ resp' = r.resp
           /\ calls' = r.calls
           /\ operator' = r.operator
    /\ UNCHANGED factoryVars

\* backend.get(request) on an ObjectStorage
BackendGet(self, request, lib, reader_ok, stream_ok) ==
    /\ req.op = "none"
    /\ LET r == get(self, request, lib, reader_ok, stream_ok, Object)
       IN  /\ req' = request
           /\ resp' = r.resp
           /\ calls' = r.calls
           /\ operator' = r.operator
    /\ UNCHANGED factoryVars

\* The caller is done with the response; the request, its locator and its
\* operator are dropped.
Drop ==
    /\ req.op # "none"
    /\ req' = NoRequest
    /\ resp' = NoResponse
    /\ calls' = <<>>
    /\ operator' = NoOperator
    /\ UNCHANGED factoryVars

\* A backend call is made only when no response is outstanding, so the
\* inputs are drawn under that guard.
Idle == req.op = "none"

HeadStep ==
    /\ Idle
    /\ \E self \in StorageBackends, url \in RequestUrls, os \in ObjectStorages,
          timeout \in Timeouts, lib \in LibOutcomes,
          list_out \in ListOutcomes, stat_out \in StatOutcomes :
           BackendHead(self, Request("head", self, url, os, timeout, NoRange),
                       lib, list_out, stat_out)

GetStep ==
    /\ Idle
    /\ \E self \in StorageBackends, url \in RequestUrls, os \in ObjectStorages,
          timeout \in Timeouts, range \in Ranges, lib \in LibOutcomes,
          reader_ok \in BOOLEAN, stream_ok \in BOOLEAN :
           BackendGet(self, Request("get", self, url, os, timeout, range),
                      lib, reader_ok, stream_ok)

NextStorage == HeadStep \/ GetStep \/ Drop

SpecStorage == Init /\ [][NextStorage]_vars

---------------------------------------------------------------------------
(* Claims about the factory *)

\* The scheme the loader derives from an entry's file name, if any.
DerivedName(e) == StripPrefix(FileStem(e.name), s_lib)

\* The directory was scanned: new got as far as its entries.
Scanned == new_result # "pending" /\ plugin_dir.some /\ plugin_dir.status = "exists"

\* C1: once new has returned Ok, whatever the plugin directory was, all
\* eight builtin schemes are keys of the table and build returns Ok for
\* every parseable URL of a builtin scheme.
C1_BuiltinSchemesAlwaysBuild ==
    new_result = "Ok" =>
        /\ factory.present
        /\ BuiltinSchemes \subseteq DOMAIN factory.backends
        /\ \A u \in BuildUrls :
               u.parses /\ u.scheme \in BuiltinSchemes
                   => build(factory.backends, u).ok
        /\ (build_result.called /\ build_result.url.parses
                /\ build_result.url.scheme \in BuiltinSchemes) => build_result.ok

\* A factory built over a directory of loaded modules returned the cos backend.
C1_Witness ==
    /\ new_result = "Ok"
    /\ plugin_dir.some /\ plugin_dir.status = "exists" /\ Len(plugin_dir.entries) > 0
    /\ build_result.called /\ build_result.ok
    /\ build_result.url.scheme = s_cos
    /\ prev_build.called /\ prev_build.ok /\ prev_build.url.scheme = s_http

\* C2: build of a parseable URL whose scheme is not a key of the table
\* fails with InvalidParameter and returns no backend.
C2_UnregisteredSchemeInvalidParameter ==
    (build_result.called /\ build_result.url.parses
         /\ build_result.url.scheme \notin DOMAIN factory.backends)
        => /\ ~build_result.ok
           /\ build_result.err = "InvalidParameter"
           /\ build_result.backend = NoBackend

\* build was called with scheme "s", a proper prefix of the key "s3".
C2_Witness ==
    /\ build_result.called /\ build_result.url = Url(s_s, h_bucket, p_key)
    /\ s_s3 \in DOMAIN factory.backends
    /\ build_result.err = "InvalidParameter"

\* C3 as stated: build of a string that does not parse as a URL fails with
\* InvalidParameter.
C3_Original ==
    (build_result.called /\ ~build_result.url.parses)
        => (~build_result.ok /\ build_result.err = "InvalidParameter")

\* C3 amended: build of a string that does not parse as a URL fails with
\* the ParseError wrapping of the parser's error, not with InvalidParameter,
\* and returns no backend.
C3_ParseFailureIsParseError ==
    (build_result.called /\ ~build_result.url.parses)
        => /\ ~build_result.ok
           /\ build_result.err = "ParseError"
           /\ build_result.backend = NoBackend

\* build was called with a string that does not parse.
C3_Witness ==
    build_result.called /\ ~build_result.url.parses /\ build_result.err = "ParseError"

\* C7: when an entry of the scanned directory fails to load or lacks
\* register_plugin, new returns PluginError and no factory, whatever was
\* registered before that entry; build is never served.
C7_BadPluginFailsConstruction ==
    (Scanned /\ \E i \in 1..Len(plugin_dir.entries) :
                    plugin_dir.entries[i].status # "ok")
        => /\ new_result = "PluginError"
           /\ ~factory.present
           /\ factory.backends = EmptyMap
           /\ ~build_result.called

\* A well-formed module was registered, then one without the export failed.
C7_Witness ==
    /\ Scanned
    /\ Len(plugin_dir.entries) = 2
    /\ plugin_dir.entries[1].status = "ok"
    /\ plugin_dir.entries[2].status = "no_symbol"
    /\ \E i \in 1..Len(log) : log[i].kind = "plugin"
    /\ new_result = "PluginError"

\* C8: with a plugin root whose backend directory does not exist, new
\* returns Ok, hands no file to the loader, and the table holds exactly
\* the eight builtin backends.
C8_MissingDirectorySkipped ==
    (new_result # "pending" /\ plugin_dir.some /\ plugin_dir.status = "missing")
        => /\ new_result = "Ok"
           /\ factory.present
           /\ attempts = <<>>
           /\ invoked = <<>>
           /\ DOMAIN factory.backends = BuiltinSchemes
           /\ \A s \in BuiltinSchemes : factory.backends[s] = BuiltinBackend(s)

\* new returned for a plugin root without a backend directory.
C8_Witness ==
    /\ new_result = "Ok" /\ plugin_dir.some /\ plugin_dir.status = "missing"
    /\ build_result.called /\ build_result.ok

\* Index of the last loaded entry whose derived name is s, 0 if none.
LastEntryFor(s) ==
    LET hits == {i \in 1..Len(plugin_dir.entries) :
                    /\ plugin_dir.entries[i].status = "ok"
                    /\ DerivedName(plugin_dir.entries[i]) = SomeStr(s)}
    IN  IF hits = {} THEN 0 ELSE CHOOSE i \in hits : \A j \in hits : j <= i

\* C9: the eight builtins are registered first, every plugin after them;
\* after a successful construction a builtin scheme that a loaded module
\* derives is bound to the last such module's instance, the builtin
\* instance it replaced is bound nowhere in the table, build returns the
\* module's instance, and the table has one key per distinct scheme.
C9_BuiltinsFirstLastWriteWins ==
    /\ new_result # "pending" =>
           /\ Len(log) >= Len(BuiltinOrder)
           /\ \A i \in 1..Len(log) :
                  (log[i].kind = "builtin") <=> (i <= Len(BuiltinOrder))
           /\ \A i \in 1..Len(BuiltinOrder) : log[i].name = BuiltinOrder[i]
    /\ (new_result = "Ok" /\ Scanned) =>
           /\ \A s \in BuiltinSchemes :
                  LastEntryFor(s) # 0 =>
                      /\ factory.backends[s]
                             = PluginBackend(plugin_dir.entries[LastEntryFor(s)].name)
                      /\ \A k \in DOMAIN factory.backends :
                             factory.backends[k] # BuiltinBackend(s)
                      /\ (build_result.called /\ build_result.url.parses
                              /\ build_result.url.scheme = s)
                             => build_result.backend = factory.backends[s]
           /\ Cardinality(DOMAIN factory.backends)
                  = Cardinality(BuiltinSchemes
                        \cup {DerivedName(plugin_dir.entries[i]).val :
                                 i \in {j \in 1..Len(plugin_dir.entries) :
                                           DerivedName(plugin_dir.entries[j]).some}})

\* libs3 was loaded and build of an s3 URL returned the module's instance.
C9_Witness ==
    /\ new_result = "Ok" /\ Scanned
    /\ LastEntryFor(s_s3) # 0
    /\ build_result.called /\ build_result.ok
    /\ build_result.url.scheme = s_s3
    /\ build_result.backend.kind = "Plugin"

\* C10: once new has returned, no step changes the factory (its keys and
\* the instance bound to each), and two successful builds of URLs with the
\* same scheme return the same instance.
C10_TableImmutableAfterConstruction ==
    /\ [][new_result # "pending" => factory' = factory]_vars
    /\ []((build_result.called /\ prev_build.called
              /\ build_result.ok /\ prev_build.ok
              /\ build_result.url.scheme = prev_build.url.scheme)
             => build_result.backend = prev_build.backend)

\* Two successful builds of different URLs with the same scheme.
C10_Witness ==
    /\ build_result.called /\ prev_build.called
    /\ build_result.ok /\ prev_build.ok
    /\ build_result.url.scheme = prev_build.url.scheme
    /\ build_result.url # prev_build.url

---------------------------------------------------------------------------
(* Claims about the object storage backend *)

\* A head or get call has returned and its response is still held.
Returned == req.op \in {"head", "get"}

\* The locator accepts the URL of the request.
Located == req.url.parses /\ try_from(req.url).ok

\* C4: head and get on a URL that parses but has no host fail with
\* InvalidURI, on every backend and for every scheme of the URL, with or
\* without credentials, before an operator is built or a provider call made.
C4_HostlessUrlInvalidURI ==
    (Returned /\ req.url.parses /\ ~req.url.host.some)
        => /\ ~resp.ok
           /\ resp.err = "InvalidURI"
           /\ operator = NoOperator
           /\ calls = <<>>

\* get of cos:///k without credentials returned InvalidURI.
C4_Witness ==
    /\ req.op = "get"
    /\ req.url = Url(s_cos, h_none, p_key)
    /\ req.self.scheme = "COS"
    /\ ~req.object_storage.some
    /\ resp.err = "InvalidURI"

\* C5: head and get without credentials fail on every backend, and with
\* BackendError whenever the locator accepts the URL; no operator is built
\* and no list, stat, reader or stream call is issued.
C5_NoCredentialsBackendError ==
    (Returned /\ ~req.object_storage.some)
        => /\ ~resp.ok
           /\ operator = NoOperator
           /\ calls = <<>>
           /\ Located => resp.err = "BackendError"

\* get of s3://b/k on the S3 backend without credentials returned BackendError.
C5_Witness ==
    /\ req.op = "get"
    /\ req.self.scheme = "S3"
    /\ req.url = Url(s_s3, h_bucket, p_key)
    /\ ~req.object_storage.some
    /\ resp.err = "BackendError"
    /\ resp.message = "need access_key_id and access_key_secret"

\* C6: on the S3, OBS, COS and ABS backends, a request whose credentials
\* lack an access key id or an access key secret (no credentials object, or
\* one with either field empty) fails with BackendError and issues no
\* provider call.
C6_MissingKeyPairBackendError ==
    (/\ Returned /\ Located
     /\ req.self.scheme \in {"S3", "OBS", "COS", "ABS"}
     /\ \/ ~req.object_storage.some
        \/ req.object_storage.access_key_id = ""
        \/ req.object_storage.access_key_secret = "")
        => /\ ~resp.ok
           /\ resp.err = "BackendError"
           /\ calls = <<>>

\* The operator was built: head or get got past operator construction.
Built == Returned /\ operator # NoOperator

\* The request targets a directory: its URL path ends with "/".
DirectoryTarget == EndsWith(req.url.path, "/")

\* Some provider call of the request has the given name.
Issued(name) == \E i \in 1..Len(calls) : calls[i].name = name

\* The listing of the request failed.
ListFailed == \E i \in 1..Len(calls) : calls[i].name = "list" /\ ~calls[i].ok

\* The stat of the request failed.
StatFailed == \E i \in 1..Len(calls) : calls[i].name = "stat" /\ ~calls[i].ok

\* C11 as stated: head issues a stat on every path that gets past operator
\* construction, and a failed listing or a failed stat gives BackendError
\* with no entries.
C11_Original ==
    (Built /\ req.op = "head")
        => /\ Issued("stat")
           /\ (ListFailed \/ StatFailed)
                  => (~resp.ok /\ resp.err = "BackendError" /\ resp.entries = <<>>)

\* C11 amended: head issues a stat on the exact key, as its last provider
\* call, on every path that gets past operator construction except the one
\* where the listing of a directory target fails (head returns at that
\* point, before the stat); a failed listing, or a failed stat after a
\* successful listing, gives BackendError and none of the listed entries.
C11_StatUnlessListingFails ==
    (Built /\ req.op = "head")
        => /\ Issued("stat") <=> ~ListFailed
           /\ Issued("stat")
                  => /\ calls[Len(calls)].name = "stat"
                     /\ calls[Len(calls)].key = try_from(req.url).key
           /\ DirectoryTarget => (calls # <<>> /\ calls[1].name = "list")
           /\ (ListFailed \/ StatFailed)
                  => (~resp.ok /\ resp.err = "BackendError" /\ resp.entries = <<>>)
           /\ resp.ok => (~ListFailed /\ ~StatFailed)

\* head of a directory listed two entries, then its stat failed.
C11_Witness ==
    /\ Built /\ req.op = "head" /\ DirectoryTarget
    /\ Len(calls) = 2
    /\ calls[1].name = "list" /\ calls[1].ok /\ Len(calls[1].listed) = 2
    /\ calls[2].name = "stat" /\ ~calls[2].ok
    /\ resp.err = "BackendError"

\* The path Url::set_path leaves for an entry path: encoded, and begun
\* with "/" when the entry path does not begin with one.
PathSetTo(entry_path) ==
    IF entry_path # <<>> /\ entry_path[1] = "/"
    THEN PercentEncodePath(entry_path)
    ELSE <<"/">> \o PercentEncodePath(entry_path)

\* C12: a successful head on a directory URL whose listing returned N
\* children has N entries in listing order, entry i being the parent URL
\* with its path replaced by child i's path, with child i's content length
\* and is-directory flag; a successful head on any other URL issued no list
\* call and has no entries; in both cases content_length is what the stat
\* call returned.
C12_EntriesMirrorListing ==
    (Returned /\ req.op = "head" /\ resp.ok)
        => /\ calls # <<>>
           /\ calls[Len(calls)].name = "stat"
           /\ resp.content_length = calls[Len(calls)].size
           /\ DirectoryTarget =>
                  /\ Len(calls) = 2 /\ calls[1].name = "list"
                  /\ Len(resp.entries) = Len(calls[1].listed)
                  /\ \A i \in 1..Len(resp.entries) :
                         /\ resp.entries[i].url.scheme = req.url.scheme
                         /\ resp.entries[i].url.host = req.url.host
                         /\ resp.entries[i].url.path
                                = PathSetTo(calls[1].listed[i].path)
                         /\ resp.entries[i].content_length
                                = calls[1].listed[i].content_length
                         /\ resp.entries[i].is_dir = calls[1].listed[i].is_dir
           /\ ~DirectoryTarget =>
                  /\ ~Issued("list")
                  /\ resp.entries = <<>>

\* head of s3://b/d/ listed a file and a subdirectory, and the stat
\* reported a length different from both.
C12_Witness ==
    /\ Returned /\ req.op = "head" /\ resp.ok /\ DirectoryTarget
    /\ Len(resp.entries) = 2
    /\ resp.entries[1].url.path = <<"/", "d", "/", "k">>
    /\ ~resp.entries[1].is_dir
    /\ resp.entries[1].content_length = MaxLength
    /\ resp.entries[2].url.path = <<"/", "d", "/", "s", "/">>
    /\ resp.entries[2].is_dir
    /\ resp.content_length = 1

\* C13: a successful get opened the stream on the exact key with the byte
\* range start..start+length of the request, or with no range when the
\* request has none; for a range that lies inside the object the body is
\* the length bytes at offsets [start, start+length), and without a range
\* the body is the whole object.
C13_RangeIsHalfOpenInterval ==
    (Returned /\ req.op = "get" /\ resp.ok)
        => /\ Len(calls) = 2
           /\ calls[2].name = "stream"
           /\ calls[2].key = try_from(req.url).key
           /\ req.range.some =>
                  /\ calls[2].ranged
                  /\ calls[2].start = req.range.start
                  /\ calls[2].end = req.range.start + req.range.length
                  /\ req.range.start + req.range.length <= Len(Object) =>
                         /\ Len(resp.body) = req.range.length
                         /\ \A i \in 1..req.range.length :
                                resp.body[i] = Object[req.range.start + i]
           /\ ~req.range.some =>
                  /\ ~calls[2].ranged
                  /\ resp.body = Object

\* get with the range (start 1, length 2) returned the bytes at offsets 1 and 2.
C13_Witness ==
    /\ Returned /\ req.op = "get" /\ resp.ok
    /\ req.range = SomeRange(1, 2)
    /\ resp.body = <<"b1", "b2">>
    /\ resp.status_code = "200 OK"

\* The URL of the request has a host, but its path does not begin with "/".
PathNotRooted ==
    /\ req.url.parses /\ req.url.host.some
    /\ (req.url.path = <<>> \/ req.url.path[1] # "/")

\* C14: for a URL the locator accepts, the key every provider call is given
\* is the percent-decoded URL path without its first "/", and only that one
\* (an encoded %2F becomes "/", a second leading "/" stays), and the bucket
\* of the operator is the URL's host; a URL whose path does not begin with
\* "/" is rejected with InvalidURI before an operator is built.
C14_KeyIsDecodedPath ==
    /\ (Returned /\ Located) =>
           /\ req.url.path # <<>> /\ req.url.path[1] = "/"
           /\ try_from(req.url).key = PercentDecode(Tail(req.url.path))
           /\ try_from(req.url).bucket = req.url.host.val
    /\ Built =>
           /\ Located
           /\ operator.bucket = req.url.host.val
           /\ \A i \in 1..Len(calls) :
                  calls[i].key = PercentDecode(Tail(req.url.path))
           /\ (req.url.path = p_encoded /\ calls # <<>>)
                  => calls[1].key = <<"d", "/", "k">>
           /\ (req.url.path = p_double /\ calls # <<>>)
                  => calls[1].key = <<"/", "k">>
           /\ (req.url.path = p_key /\ calls # <<>>)
                  => calls[1].key = <<"k">>
    /\ (Returned /\ PathNotRooted) =>
           /\ ~resp.ok /\ resp.err = "InvalidURI"
           /\ operator = NoOperator /\ calls = <<>>

\* get of s3://b/d%2Fk read the key d/k of bucket b.
C14_Witness ==
    /\ Built /\ req.op = "get" /\ resp.ok
    /\ req.url = Url(s_s3, h_bucket, p_encoded)
    /\ calls[1].key = <<"d", "/", "k">>
    /\ operator.bucket = <<"b">>

\* C15: the locator is a directory target exactly when the URL's path, as
\* encoded, ends with "/": head lists exactly then, whatever the backend,
\* the credentials, the decoded key and the answers of the provider;
\* s3://b/d/ is listed, s3://b/k is not, and s3://b/d%2F is not although
\* its key d/ ends with "/".
C15_DirectoryIffTrailingSeparator ==
    /\ (Returned /\ Located) =>
           (is_dir(try_from(req.url)) <=> EndsWith(req.url.path, "/"))
    /\ (Built /\ req.op = "head") =>
           /\ Issued("list") <=> EndsWith(req.url.path, "/")
           /\ req.url.path = p_dir => calls[1].name = "list"
           /\ req.url.path \in {p_key, p_encoded_slash, p_encoded, p_double}
                  => ~Issued("list")

\* head of s3://b/d%2F went straight to the stat of the key d/.
C15_Witness ==
    /\ Built /\ req.op = "head" /\ resp.ok
    /\ req.url = Url(s_s3, h_bucket, p_encoded_slash)
    /\ Len(calls) = 1
    /\ calls[1].name = "stat"
    /\ calls[1].key = <<"d", "/">>

---------------------------------------------------------------------------
(* Further claims about the factory *)

\* The entry's file stem starts with "lib".
HasLibPrefix(e) == DerivedName(e).some

\* The plugin directory without the entries that lack the prefix.
WithoutUnprefixed(dir) ==
    [dir EXCEPT !.entries = SelectSeq(@, HasLibPrefix)]

\* C16: an entry whose file stem does not start with "lib" is handed to the
\* loader like any other, so construction fails when it does not load or
\* lacks register_plugin; when it loads, its constructor is not invoked, no
\* line is logged and nothing is registered for it: after a successful
\* construction the table is the one the directory without such entries
\* gives, and its keys are the eight builtins and the stems, without
\* "lib", of the prefixed entries.
C16_UnprefixedModuleLoadedNotRegistered ==
    Scanned =>
        /\ (\E i \in 1..Len(plugin_dir.entries) :
                /\ ~HasLibPrefix(plugin_dir.entries[i])
                /\ plugin_dir.entries[i].status # "ok")
               => (new_result = "PluginError" /\ ~factory.present)
        /\ new_result = "Ok" =>
               /\ attempts = [i \in 1..Len(plugin_dir.entries) |->
                                 plugin_dir.entries[i].name]
               /\ invoked = [i \in 1..Len(WithoutUnprefixed(plugin_dir).entries) |->
                                WithoutUnprefixed(plugin_dir).entries[i].name]
               /\ Len(log) = Len(Builtins) + Len(invoked)
               /\ factory.backends
                      = new(WithoutUnprefixed(plugin_dir)).factory.backends
               /\ DOMAIN factory.backends
                      = BuiltinSchemes
                        \cup {DerivedName(plugin_dir.entries[i]).val :
                                 i \in {j \in 1..Len(plugin_dir.entries) :
                                           HasLibPrefix(plugin_dir.entries[j])}}
               /\ \A i \in 1..Len(plugin_dir.entries) :
                      ~HasLibPrefix(plugin_dir.entries[i])
                          => \A k \in DOMAIN factory.backends :
                                 factory.backends[k]
                                     # PluginBackend(plugin_dir.entries[i].name)

\* hdfs.so was loaded next to libs3.so; only libs3.so was registered, and
\* build of an hdfs URL found no backend.
C16_Witness ==
    /\ Scanned /\ new_result = "Ok"
    /\ Len(plugin_dir.entries) = 2
    /\ \E i \in 1..2 : ~HasLibPrefix(plugin_dir.entries[i])
    /\ Len(attempts) = 2
    /\ Len(invoked) = 1
    /\ build_result.called
    /\ build_result.url.scheme = s_hdfs
    /\ build_result.err = "InvalidParameter"

---------------------------------------------------------------------------
(* Further claims about the object storage backend *)

\* <ObjectStorage as Backend>::scheme()
scheme_of(backend) == Display(backend.scheme)

\* The scheme tables BackendFactory::new returns for the plugin directories.
FactoryTables ==
    {new(dir).factory.backends : dir \in {d \in PluginDirs : new(d).result = "Ok"}}

\* Some factory's build(url) returns the backend.
ResolvesTo(url, backend) ==
    \E table \in FactoryTables :
        build(table, url).ok /\ build(table, url).backend = backend

\* C17: the operator a request builds is of the provider named by the
\* backend's own scheme, whatever the scheme of the URL; a URL of another
\* object storage scheme is not refused for that; every builtin object
\* storage backend is registered under its scheme() string, so when the
\* backend is the one build(url) returns for the request's URL, the
\* provider is the URL's scheme.
C17_ProviderIsBackendsOwnScheme ==
    /\ \A i \in 1..Len(Builtins) :
           Builtins[i].backend.kind = "ObjectStorage"
               => scheme_of(Builtins[i].backend) = Builtins[i].key
    /\ Built => operator.provider = req.self.scheme
    /\ (Returned /\ Located) => resp.err # "InvalidURI"
    /\ (Built /\ ResolvesTo(req.url, req.self))
           => /\ Display(operator.provider) = req.url.scheme
              /\ try_from(req.url).scheme = req.self.scheme
    /\ (Built /\ try_from(req.url).scheme # req.self.scheme)
           => ~ResolvesTo(req.url, req.self)

\* head of gcs://b/k on the S3 backend succeeded with an S3 operator.
C17_Witness ==
    /\ Built /\ req.op = "head" /\ resp.ok
    /\ req.self = ObjectStorage_new("S3")
    /\ req.url = Url(s_gcs, h_bucket, p_key)
    /\ operator.provider = "S3"
    /\ ~ResolvesTo(req.url, req.self)

\* get of cos://b/k on the backend build returns for it built a COS operator.
C17_ResolvedWitness ==
    /\ Built /\ req.op = "get"
    /\ req.url = Url(s_cos, h_bucket, p_key)
    /\ ResolvesTo(req.url, req.self)
    /\ operator.provider = "COS"

=============================================================================
